---- MODULE Spec2Model ----
(***************************************************************************)
(* Leaderboard back end of src/app.py: the users, world_records and        *)
(* tournament_scores collections and the handlers that read and write them.*)
(*                                                                         *)
(* Four specifications are given over the same variables:                  *)
(*   SpecWR      requests served one at a time: user_details,              *)
(*               submit_world_record, get_all_world_records                *)
(*   SpecWRConc  submit_world_record requests whose find_one and           *)
(*               update_one interleave                                     *)
(*   Spec        requests served one at a time: submit_tournament_score    *)
(*   SpecTConc   submit_tournament_score requests whose store operations   *)
(*               interleave, and a concurrent get_tournament_data          *)
(***************************************************************************)
EXTENDS Integers, Sequences, FiniteSets, TLC

VARIABLES
    users,              \* db.users: the set of stored user _ids
    world_records,      \* db.world_records: set of documents
    tournament_scores,  \* db.tournament_scores: set of documents
    nextId,             \* next ObjectId the store generates on insert_one
    clock,              \* datetime.utcnow()
    req,                \* the request served last (one-at-a-time specifications)
    resp,               \* its response
    wrSubmitted,        \* history: per gameId, the scores submitted so far
    best,               \* history (one-at-a-time): per tournament and user, the best score submitted
    pc,                 \* per in-flight request: the next store operation
    loc,                \* per in-flight request: the handler's local variables
    rd                  \* the in-flight get_tournament_data request

vars == <<users, world_records, tournament_scores, nextId, clock, req, resp,
          wrSubmitted, best, pc, loc, rd>>

----------------------------------------------------------------------------
(* Bounds of the model *)

\* user ids that requests carry: 1..NumUsers
NumUsers == 2
\* largest score a request carries
MaxScore == 1
\* number of submit_world_record requests served in one behaviour
MaxClock == 3
\* number of insert_one calls on tournament_scores in one behaviour
MaxInserts == 2

(* Program constants *)

\* leaderboard size: len(scores) < 50, .skip(50), .limit(50)
TopN == 50

----------------------------------------------------------------------------
(* Values *)

None == [none |-> TRUE]

UserIds == 1..NumUsers
\* the users stored at start; NumUsers itself is a well-formed id of no stored user
StoredUsers == 1..(NumUsers - 1)
GameIds == {1, 2}
\* db.games holds game 1 only: game 2 is a well-formed id of no stored game
StoredGames == {1}
Scores == (-1)..MaxScore

\* An identifier as it arrives in a request: a 24-digit hex string naming
\* oid, or any other string.
RawId(S) == [kind : {"hex24"}, oid : S] \cup {[kind |-> "malformed", oid |-> 0]}
\* The user_id query parameter, which may also be absent (None)
RawParam(S) == RawId(S) \cup {[kind |-> "missing", oid |-> 0]}
\* A score as it arrives in a request: a JSON integer, or a string that is
\* not a number.
RawScore == [kind : {"int"}, v : Scores] \cup {[kind |-> "nan", v |-> 0]}

\* db.tournaments, in the order find() yields it
Tournaments ==
    << [_id |-> 1, name |-> "t1", gameName |-> "g1", prizes |-> "p1",
        weekType |-> "current"],
       [_id |-> 2, name |-> "t2", gameName |-> "g2", prizes |-> "p2",
        weekType |-> "last"] >>
TournamentIds == {Tournaments[i]._id : i \in 1..Len(Tournaments)}

\* Tournament 1 may start with a board that earlier submissions have built:
\* k users 101..100+k, each having submitted once, user 100+i the score i-1.
InitSizes == {0, TopN - 1, TopN}
FillerDoc(i) ==
    [_id |-> 1000 + i, tournamentId |-> 1, userId |-> 100 + i,
     username |-> "f", score |-> i - 1]
FillerBoard(k) == {FillerDoc(i) : i \in 1..k}

\* bson.ObjectId(x): the ObjectId, or InvalidId raised
ObjectId(raw) ==
    IF raw.kind = "hex24" THEN [ok |-> TRUE, oid |-> raw.oid]
    ELSE [ok |-> FALSE, oid |-> 0]

\* int(x): the integer, or ValueError raised.  There is
\* no range check: a negative integer converts to itself.
IntOf(raw) ==
    IF raw.kind = "int" THEN [ok |-> TRUE, v |-> raw.v]
    ELSE [ok |-> FALSE, v |-> 0]

\* What the framework answers when a handler raises HTTPException(code, detail)
HTTPException(code, detail) == [code |-> code, body |-> [detail |-> detail]]
\* What the framework answers when a handler raises anything else
ServerError == [code |-> 500, body |-> [detail |-> "Internal Server Error"]]
\* What the framework answers when a handler returns body
Ok(body) == [code |-> 200, body |-> body]

NoReq == [op |-> "none"]
NoResp == [code |-> 0, body |-> None]

Max(S) == CHOOSE x \in S : \A y \in S : y <= x
Min(S) == CHOOSE x \in S : \A y \in S : x <= y

----------------------------------------------------------------------------
(* user_details *)

\* the handler's answer for query parameter user_id over the users collection
UserDetailsResp(us, user_id) ==
    IF user_id.kind = "missing"
    THEN HTTPException(400, "user_id parameter is required")
    ELSE LET o == ObjectId(user_id) IN
         IF ~o.ok THEN HTTPException(400, "Invalid user_id")
         ELSE IF o.oid \notin us
              \* HTTPException(404) is raised inside the try block and is
              \* caught by its "except Exception", which raises the 400
              THEN HTTPException(400, "Invalid user_id")
              ELSE Ok([status |-> TRUE, userId |-> o.oid])

user_details(user_id) ==
    /\ req' = [op |-> "user_details", user_id |-> user_id]
    /\ resp' = UserDetailsResp(users, user_id)
    /\ UNCHANGED <<users, world_records, tournament_scores, nextId, clock,
                   wrSubmitted, best, pc, loc, rd>>

----------------------------------------------------------------------------
(* submit_world_record *)

\* db.world_records.find_one({"gameId": game_id}): a matching document or None
FindOneRecord(wr, game_id) ==
    IF \E r \in wr : r.gameId = game_id
    THEN {r \in wr : r.gameId = game_id}
    ELSE {None}

\* (the test with >= in place of >)
BeatsRecordOnTie(record, score) == record = None \/ score >= record.score

\* the test "not record or score > record['score']"
BeatsRecord(record, score) == record = None \/ score > record.score

\* update_one({"gameId": game_id}, {"$set": {...}}, upsert=True): one matching
\* document has its fields set, or a new document is inserted
UpsertRecord(wr, game_id, user_id, score, now) ==
    LET new == [gameId |-> game_id, userId |-> user_id, score |-> score,
                updatedAt |-> now]
    IN  IF \E r \in wr : r.gameId = game_id
        THEN {(wr \ {r}) \cup {new} : r \in {x \in wr : x.gameId = game_id}}
        ELSE {wr \cup {new}}

\* history of the scores submitted for a game
NoteSubmitted(h, game_id, score) ==
    [h EXCEPT ![game_id] = @ \cup {score}]

submit_world_record(payload) ==
    LET user_id == ObjectId(payload.userId)
        game_id == ObjectId(payload.gameId)
        score   == IntOf(payload.score)
    IN
    /\ clock < MaxClock
    /\ clock' = clock + 1
    /\ req' = [op |-> "submit_world_record", payload |-> payload]
    /\ IF ~user_id.ok \/ ~game_id.ok \/ ~score.ok
       THEN /\ resp' = ServerError
            /\ UNCHANGED <<world_records, wrSubmitted>>
       ELSE /\ wrSubmitted' = NoteSubmitted(wrSubmitted, game_id.oid, score.v)
            /\ \E record \in FindOneRecord(world_records, game_id.oid) :
                 IF BeatsRecord(record, score.v)
                 THEN /\ world_records' \in UpsertRecord(world_records, game_id.oid,
                                                        user_id.oid, score.v, clock')
                      /\ resp' = Ok([status |-> TRUE, newWorldRecord |-> TRUE])
                 ELSE /\ world_records' = world_records
                      /\ resp' = Ok([status |-> TRUE, newWorldRecord |-> FALSE])
    /\ UNCHANGED <<users, tournament_scores, nextId, best, pc, loc, rd>>

----------------------------------------------------------------------------
(* get_all_world_records *)

\* the projection {"_id": 0, "gameId": 1, "score": 1}
ProjectRecords(wr) == {[gameId |-> r.gameId, score |-> r.score] : r \in wr}

get_all_world_records ==
    /\ req' = [op |-> "get_all_world_records"]
    /\ resp' = Ok([status |-> TRUE, data |-> ProjectRecords(world_records)])
    /\ UNCHANGED <<users, world_records, tournament_scores, nextId, clock,
                   wrSubmitted, best, pc, loc, rd>>

----------------------------------------------------------------------------
(* Requests served one at a time: users and world records *)

WRPayloads ==
    [userId : RawId(UserIds), gameId : RawId(GameIds), score : RawScore]

InitCommon ==
    /\ users = StoredUsers
    /\ world_records = {}
    /\ nextId = 1
    /\ clock = 0
    /\ req = NoReq
    /\ resp = NoResp
    /\ wrSubmitted = [g \in GameIds |-> {}]
    /\ rd = None

InitWR ==
    /\ InitCommon
    /\ tournament_scores = {}
    /\ best = {}
    /\ pc = <<>>
    /\ loc = <<>>

NextWR ==
    \/ \E user_id \in RawParam(UserIds) : user_details(user_id)
    \/ \E payload \in WRPayloads : submit_world_record(payload)
    \/ get_all_world_records

SpecWR == InitWR /\ [][NextWR]_vars

----------------------------------------------------------------------------
(* The tournament collections *)

\* find({"tournamentId": tournament_id}): the matching documents
FindScores(ts, tournament_id) == {d \in ts : d.tournamentId = tournament_id}

\* .sort("score", -1): the documents in non-increasing score order; the order
\* of documents with equal scores is the store's to choose
RECURSIVE SortDesc(_)
SortDesc(S) ==
    IF S = {} THEN {<<>>}
    ELSE LET m == Min({d.score : d \in S})
         IN  UNION {{Append(q, d) : q \in SortDesc(S \ {d})} :
                    d \in {e \in S : e.score = m}}

\* .skip(n) and .limit(n) of a sorted cursor
Skip(q, n) == SubSeq(q, n + 1, Len(q))
\* (no limit)
NoLimit(q, n) == q
Limit(q, n) == SubSeq(q, 1, IF Len(q) < n THEN Len(q) ELSE n)

(* The handler reads three things off its sorted list "scores": its length, *)
(* the score of its last element and its first element of the user.  They  *)
(* are computed here from the set of documents found, as every sorted order*)
(* of that set gives them (SortedReadsAgree below states the agreement).   *)

\* next((s for s in scores if s["userId"] == user_id), None): the user's
\* document that sorts first, or None
Existing(scores, user_id) ==
    LET mine == {d \in scores : d.userId = user_id}
    IN  IF mine = {} THEN {None}
        ELSE {d \in mine : \A e \in mine : e.score <= d.score}

\* (the score of the first element, scores[0]["score"])
FirstScore(scores) == Max({d.score : d \in scores})

\* scores[-1]["score"]
LastScore(scores) == Min({d.score : d \in scores})

\* (the test without its second half)
AdmitsIfNotFull(scores, score) == Cardinality(scores) < TopN

\* the test "len(scores) < 50 or score > scores[-1]['score']"
Admits(scores, score) ==
    Cardinality(scores) < TopN \/ score > LastScore(scores)

\* find(...).sort("score", -1).skip(n): the documents past the first n in
\* sorted order, whichever way the store orders equal scores
RECURSIVE Overflow(_, _)
Overflow(S, n) ==
    IF Cardinality(S) <= n THEN {{}}
    ELSE LET m == Min({d.score : d \in S})
         IN  UNION {{O \cup {d} : O \in Overflow(S \ {d}, n)} :
                    d \in {e \in S : e.score = m}}

\* (the test with != in place of >)
Differs(score, existing) == score # existing.score

\* the test "score > existing['score']"
Improves(score, existing) == score > existing.score

\* update_one({"_id": id}, {"$set": {"score": score}})
UpdateScore(ts, id, score) ==
    {IF d._id = id THEN [d EXCEPT !.score = score] ELSE d : d \in ts}

\* insert_one({...}) with the _id the store generates
InsertScore(ts, id, tournament_id, user_id, username, score) ==
    ts \cup {[_id |-> id, tournamentId |-> tournament_id, userId |-> user_id,
              username |-> username, score |-> score]}

\* (delete_one in place of delete_many: one matching document goes)
DeleteOne(ts, ids) ==
    IF \E d \in ts : d._id \in ids
    THEN ts \ {CHOOSE d \in ts : d._id \in ids}
    ELSE ts

\* delete_many({"_id": {"$in": ids}})
DeleteMany(ts, ids) == {d \in ts : d._id \notin ids}

\* history of the best score each user submitted to each tournament
NoteBest(b, tournament_id, user_id, score) ==
    IF \E e \in b : e.tournamentId = tournament_id /\ e.userId = user_id
    THEN {IF e.tournamentId = tournament_id /\ e.userId = user_id /\ e.score < score
          THEN [e EXCEPT !.score = score] ELSE e : e \in b}
    ELSE b \cup {[tournamentId |-> tournament_id, userId |-> user_id,
                  score |-> score]}

----------------------------------------------------------------------------
(* submit_tournament_score, served alone *)

submit_tournament_score(payload) ==
    LET tournament_id == ObjectId(payload.tournamentId)
        user_id  == ObjectId(payload.userId)
        username == payload.username
        score    == IntOf(payload.score)
    IN
    /\ req' = [op |-> "submit_tournament_score", payload |-> payload]
    /\ IF ~tournament_id.ok \/ ~user_id.ok \/ ~score.ok
       THEN /\ resp' = ServerError
            /\ UNCHANGED <<tournament_scores, nextId, best>>
       ELSE
       LET scores == FindScores(tournament_scores, tournament_id.oid) IN
       /\ best' = NoteBest(best, tournament_id.oid, user_id.oid, score.v)
       /\ \E existing \in Existing(scores, user_id.oid) :
          IF existing # None
          THEN /\ tournament_scores' =
                    IF Improves(score.v, existing)
                    THEN UpdateScore(tournament_scores, existing._id, score.v)
                    ELSE tournament_scores
               /\ resp' = Ok([status |-> TRUE])
               /\ UNCHANGED nextId
          ELSE IF Admits(scores, score.v)
          THEN /\ nextId <= MaxInserts
               /\ nextId' = nextId + 1
               /\ LET inserted == InsertScore(tournament_scores, nextId,
                                              tournament_id.oid, user_id.oid,
                                              username, score.v)
                  IN \E overflow \in Overflow(FindScores(inserted, tournament_id.oid),
                                              TopN) :
                       LET ids_to_delete == {doc._id : doc \in overflow}
                       IN tournament_scores' = DeleteMany(inserted, ids_to_delete)
               /\ resp' = Ok([status |-> TRUE, qualified |-> TRUE])
          ELSE /\ resp' = Ok([status |-> TRUE, qualified |-> FALSE,
                              approxRank |-> ">50"])
               /\ UNCHANGED <<tournament_scores, nextId>>
    /\ UNCHANGED <<users, world_records, clock, wrSubmitted, pc, loc, rd>>

----------------------------------------------------------------------------
(* get_tournament_data: what one pass of its loop builds *)

\* the leaderboard_data comprehension over the sorted, limited cursor
LeaderboardData(leaderboard) ==
    [i \in 1..Len(leaderboard) |->
        [rank |-> i, username |-> leaderboard[i].username,
         score |-> leaderboard[i].score]]

\* the data dict of one tournament
TournamentData(t, leaderboard) ==
    [tournamentId |-> t._id, tournamentName |-> t.name, gameName |-> t.gameName,
     prizes |-> t.prizes, leaderboard |-> LeaderboardData(leaderboard)]

\* the if / elif on weekType
Bucket(response, t, data) ==
    IF t.weekType = "current" THEN [response EXCEPT !.current = data]
    ELSE IF t.weekType = "last" THEN [response EXCEPT !.last = data]
    ELSE response

----------------------------------------------------------------------------
(* Requests served one at a time: tournaments *)

Hex(S) == [kind : {"hex24"}, oid : S]
Malformed == [kind |-> "malformed", oid |-> 0]
IntScores(S) == [kind : {"int"}, v : S]

\* The requests served: every user submits every score to tournament 1 as
\* "a"; user 1 also submits as "b", and to tournament 2; and one request for
\* each field that does not convert.
TPayloads ==
    [tournamentId : Hex({1}), userId : Hex(UserIds), username : {"a"},
     score : IntScores(0..MaxScore)]
    \cup [tournamentId : Hex({1}), userId : Hex({1}), username : {"b"},
          score : IntScores(0..MaxScore)]
    \cup [tournamentId : Hex({2}), userId : Hex({1}), username : {"a"},
          score : IntScores(0..1)]
    \cup [tournamentId : {Malformed}, userId : Hex({1}), username : {"a"},
          score : IntScores({0})]
    \cup [tournamentId : Hex({1}), userId : {Malformed}, username : {"a"},
          score : IntScores({0})]
    \cup [tournamentId : Hex({1}), userId : Hex({1}), username : {"a"},
          score : {[kind |-> "nan", v |-> 0]}]

\* the board that earlier submissions have built, and their history
InitBoard ==
    /\ \E k \in InitSizes : tournament_scores = FillerBoard(k)
    /\ best = {[tournamentId |-> d.tournamentId, userId |-> d.userId,
                 score |-> d.score] : d \in tournament_scores}

Init ==
    /\ InitCommon
    /\ InitBoard
    /\ pc = <<>>
    /\ loc = <<>>

Next == \E payload \in TPayloads : submit_tournament_score(payload)

Spec == Init /\ [][Next]_vars

----------------------------------------------------------------------------
(* Properties of the one-at-a-time world-record requests *)

\* the stored records of game g
RecordsOf(g) == {r \in world_records : r.gameId = g}

\* each game submitted to has one record, holding the greatest score submitted
RecordIsMax ==
    \A g \in GameIds :
        IF wrSubmitted[g] = {} THEN RecordsOf(g) = {}
        ELSE /\ Cardinality(RecordsOf(g)) = 1
             /\ \A r \in RecordsOf(g) : r.score = Max(wrSubmitted[g])

\* the step serves a well-formed submit_world_record request
ServesWR == clock' = clock + 1 /\ req'.op = "submit_world_record" /\ resp'.code = 200

\* C1: served one at a time, the stored record of a game holds the greatest
\* score submitted so far, and a submission equal to the current record
\* answers newWorldRecord = false and leaves the record (userId, updatedAt) as
\* it was.
C1_RecordIsMaxTiesKeepIncumbent ==
    [][ /\ RecordIsMax'
        /\ (/\ ServesWR
            /\ \E r \in world_records :
                 /\ r.gameId = req'.payload.gameId.oid
                 /\ r.score = req'.payload.score.v)
           => /\ resp'.body.newWorldRecord = FALSE
              /\ world_records' = world_records ]_vars

\* a submission by another user that ties the record has been turned down
C1_Witness ==
    /\ req.op = "submit_world_record"
    /\ resp.code = 200
    /\ resp.body.newWorldRecord = FALSE
    /\ \E r \in world_records :
         /\ r.gameId = req.payload.gameId.oid
         /\ r.score = req.payload.score.v
         /\ r.userId # req.payload.userId.oid
         /\ r.updatedAt < clock
    /\ \E g \in GameIds : Cardinality(wrSubmitted[g]) >= 2

\* C9: a submission whose score is negative or not a number is answered with
\* an error and changes no collection.
C9_InvalidScoreRejected ==
    [][ (/\ clock' = clock + 1
         /\ req'.op = "submit_world_record"
         /\ \/ req'.payload.score.kind = "nan"
            \/ req'.payload.score.v < 0)
        => /\ resp'.code >= 400
           /\ world_records' = world_records
           /\ tournament_scores' = tournament_scores ]_vars

\* the request named a well-formed identifier of something not stored
NamesAbsent(r) ==
    \/ /\ r.op = "user_details"
       /\ r.user_id.kind = "hex24"
       /\ r.user_id.oid \notin users
    \/ /\ r.op = "submit_world_record"
       /\ r.payload.userId.kind = "hex24"
       /\ r.payload.gameId.kind = "hex24"
       /\ r.payload.score.kind = "int"
       /\ \/ r.payload.userId.oid \notin users
          \/ r.payload.gameId.oid \notin StoredGames
    \/ /\ r.op = "submit_tournament_score"
       /\ r.payload.tournamentId.kind = "hex24"
       /\ r.payload.userId.kind = "hex24"
       /\ r.payload.score.kind = "int"
       /\ \/ r.payload.userId.oid \notin users
          \/ r.payload.tournamentId.oid \notin TournamentIds

\* the answer to the same request with a malformed identifier in place of
\* the absent one
MalformedAnswers(r) ==
    IF r.op = "user_details"
    THEN {UserDetailsResp(users, [kind |-> "malformed", oid |-> 0])}
    ELSE {ServerError}

\* C10: a well-formed identifier of an absent user or game is answered with a
\* not-found error that differs from the answer to a malformed identifier,
\* and nothing is stored.
C10_NotFoundDistinct ==
    [][ (req' # req /\ NamesAbsent(req'))
        => /\ resp'.code = 404
           /\ resp' \notin MalformedAnswers(req')
           /\ world_records' = world_records
           /\ tournament_scores' = tournament_scores ]_vars

----------------------------------------------------------------------------
(* submit_world_record requests that interleave: find_one and update_one   *)
(* are separate steps of each request                                      *)

NumProcs == 2
Procs == 1..NumProcs

\* lines 227-234: the payload is converted, the record is read and the
\* test is made on what was read
WR_find_one(p, payload) ==
    LET user_id == ObjectId(payload.userId)
        game_id == ObjectId(payload.gameId)
        score   == IntOf(payload.score)
    IN
    /\ pc[p] = "idle"
    /\ IF ~user_id.ok \/ ~game_id.ok \/ ~score.ok
       THEN /\ pc' = [pc EXCEPT ![p] = "done"]
            /\ loc' = [loc EXCEPT ![p] = [payload |-> payload, resp |-> ServerError]]
            /\ UNCHANGED wrSubmitted
       ELSE /\ wrSubmitted' = NoteSubmitted(wrSubmitted, game_id.oid, score.v)
            /\ \E record \in FindOneRecord(world_records, game_id.oid) :
                 IF BeatsRecord(record, score.v)
                 THEN /\ pc' = [pc EXCEPT ![p] = "update_one"]
                      /\ loc' = [loc EXCEPT ![p] = [payload |-> payload, resp |-> NoResp]]
                 ELSE /\ pc' = [pc EXCEPT ![p] = "done"]
                      /\ loc' = [loc EXCEPT ![p] =
                                   [payload |-> payload,
                                    resp |-> Ok([status |-> TRUE, newWorldRecord |-> FALSE])]]
    /\ UNCHANGED <<users, world_records, tournament_scores, nextId, clock, req,
                   resp, best, rd>>

\* lines 235-250: the upsert and the answer
WR_update_one(p) ==
    /\ pc[p] = "update_one"
    /\ clock' = clock + 1
    /\ world_records' \in UpsertRecord(world_records, loc[p].payload.gameId.oid,
                                       loc[p].payload.userId.oid,
                                       loc[p].payload.score.v, clock')
    /\ pc' = [pc EXCEPT ![p] = "done"]
    /\ loc' = [loc EXCEPT ![p].resp = Ok([status |-> TRUE, newWorldRecord |-> TRUE])]
    /\ UNCHANGED <<users, tournament_scores, nextId, req, resp, wrSubmitted,
                   best, rd>>

InitWRConc ==
    /\ InitCommon
    /\ tournament_scores = {}
    /\ best = {}
    /\ pc = [p \in Procs |-> "idle"]
    /\ loc = [p \in Procs |-> [payload |-> None, resp |-> NoResp]]

NextWRConc ==
    \/ \E p \in Procs, payload \in WRPayloads : WR_find_one(p, payload)
    \/ \E p \in Procs : WR_update_one(p)

SpecWRConc == InitWRConc /\ [][NextWRConc]_vars

\* C2: once every interleaved submit_world_record request has completed, the
\* stored record of each game holds the greatest score submitted.  (Stated
\* for non-negative scores, so that a violation owes nothing to the missing
\* range check.)
C2_ConcurrentRecordIsMax ==
    (/\ \A p \in Procs : pc[p] = "done"
     /\ \A g \in GameIds : \A x \in wrSubmitted[g] : x >= 0)
    => RecordIsMax

----------------------------------------------------------------------------
(* Properties of the one-at-a-time tournament requests *)

\* number of elements of S whose score is above v
Above(S, v) == Cardinality({x \in S : x.score > v})

Least(a, b) == IF a < b THEN a ELSE b

\* the scores of S, as a multiset, are the n highest of those of B (all of
\* them when B has fewer than n)
HoldsTopOf(S, B, n) ==
    /\ Cardinality(S) = Least(n, Cardinality(B))
    /\ \A v \in {x.score : x \in S \cup B} :
         Above(S, v) = Least(Cardinality(S), Above(B, v))

BestOf(tournament_id) == {e \in best : e.tournamentId = tournament_id}

\* the last request was a well-formed submit_tournament_score
ServedT == req.op = "submit_tournament_score" /\ resp.code = 200
Qualified(r) == "qualified" \in DOMAIN r.body /\ r.body.qualified
Rejected(r) == "qualified" \in DOMAIN r.body /\ ~r.body.qualified

\* C5: served one at a time, the stored scores of a tournament are exactly
\* the 50 highest of the users' best submitted scores (all of them when fewer
\* than 50 users have submitted); so a new participant admitted to a full
\* board leaves 50 entries, a lowest one having gone.
C5_BoardIsTop50OfBest ==
    \A t \in TournamentIds :
        HoldsTopOf(FindScores(tournament_scores, t), BestOf(t), TopN)

\* a new participant has been admitted over the lowest entry of a full board:
\* 50 entries remain and the lowest earlier entry is gone
C5_Witness ==
    /\ ServedT /\ Qualified(resp)
    /\ Cardinality(BestOf(1)) > TopN
    /\ Cardinality(FindScores(tournament_scores, 1)) = TopN
    /\ FillerDoc(1) \notin tournament_scores
    /\ \E d \in tournament_scores :
         /\ d.userId = req.payload.userId.oid
         /\ d.score = req.payload.score.v
         /\ d.score > FillerDoc(1).score

\* C6: when a call answers qualified = false, every score stored for the
\* tournament is at least the score turned down, and the call has changed
\* nothing in the store.
C6_RejectedIsNotAboveStored ==
    [][ (/\ req'.op = "submit_tournament_score"
         /\ resp'.code = 200
         /\ Rejected(resp'))
        => /\ tournament_scores' = tournament_scores
           /\ \A d \in FindScores(tournament_scores', req'.payload.tournamentId.oid) :
                d.score >= req'.payload.score.v ]_vars

\* a score has been turned down by a full board
C6_Witness ==
    /\ ServedT /\ Rejected(resp)
    /\ Cardinality(FindScores(tournament_scores, req.payload.tournamentId.oid)) = TopN
    /\ \E d \in tournament_scores : d.score = req.payload.score.v

\* C7: a user with a stored entry who resubmits a score no higher than the
\* stored one is answered status = true with no qualified field, and the
\* whole collection stays as it was.
C7_ResubmitLowerChangesNothing ==
    [][ (/\ req'.op = "submit_tournament_score"
         /\ resp'.code = 200
         /\ \E d \in tournament_scores :
              /\ d.tournamentId = req'.payload.tournamentId.oid
              /\ d.userId = req'.payload.userId.oid
              /\ req'.payload.score.v <= d.score)
        => /\ resp' = Ok([status |-> TRUE])
           /\ tournament_scores' = tournament_scores ]_vars

\* a stored user has resubmitted a lower score under another username
C7_Witness ==
    /\ ServedT
    /\ resp = Ok([status |-> TRUE])
    /\ \E d \in tournament_scores :
         /\ d.tournamentId = req.payload.tournamentId.oid
         /\ d.userId = req.payload.userId.oid
         /\ req.payload.score.v < d.score
         /\ req.payload.username # d.username

----------------------------------------------------------------------------
(* submit_tournament_score requests that interleave: each store operation  *)
(* (find, update_one, insert_one, the trimming find, delete_many) is a     *)
(* step of its request; get_tournament_data runs beside them, one find per *)
(* tournament                                                              *)

TLocals(payload, existing, ids, r) ==
    [payload |-> payload, existing |-> existing, ids_to_delete |-> ids, resp |-> r]

\* insert_one calls that requests under way are still to make
PendingInserts == Cardinality({p \in Procs : pc[p] = "insert_one"})

\* lines 270-294: the payload is converted, the scores are read, and the
\* handler decides on what it read
T_find(p, payload) ==
    LET tournament_id == ObjectId(payload.tournamentId)
        user_id  == ObjectId(payload.userId)
        score    == IntOf(payload.score)
    IN
    /\ pc[p] = "idle"
    /\ nextId + PendingInserts <= MaxInserts
    /\ IF ~tournament_id.ok \/ ~user_id.ok \/ ~score.ok
       THEN /\ pc' = [pc EXCEPT ![p] = "done"]
            /\ loc' = [loc EXCEPT ![p] = TLocals(payload, None, {}, ServerError)]
            /\ UNCHANGED best
       ELSE
       LET scores == FindScores(tournament_scores, tournament_id.oid) IN
       /\ UNCHANGED best
       /\ \E existing \in Existing(scores, user_id.oid) :
          IF existing # None
          THEN IF Improves(score.v, existing)
               THEN /\ pc' = [pc EXCEPT ![p] = "update_one"]
                    /\ loc' = [loc EXCEPT ![p] = TLocals(payload, existing, {}, NoResp)]
               ELSE /\ pc' = [pc EXCEPT ![p] = "done"]
                    /\ loc' = [loc EXCEPT ![p] =
                                 TLocals(payload, existing, {}, Ok([status |-> TRUE]))]
          ELSE IF Admits(scores, score.v)
          THEN /\ pc' = [pc EXCEPT ![p] = "insert_one"]
               /\ loc' = [loc EXCEPT ![p] = TLocals(payload, None, {}, NoResp)]
          ELSE /\ pc' = [pc EXCEPT ![p] = "done"]
               /\ loc' = [loc EXCEPT ![p] =
                            TLocals(payload, None, {},
                                    Ok([status |-> TRUE, qualified |-> FALSE,
                                        approxRank |-> ">50"]))]
    /\ UNCHANGED <<users, world_records, tournament_scores, nextId, clock, req,
                   resp, wrSubmitted, rd>>

\* lines 287-291
T_update_one(p) ==
    /\ pc[p] = "update_one"
    /\ tournament_scores' = UpdateScore(tournament_scores, loc[p].existing._id,
                                        loc[p].payload.score.v)
    /\ pc' = [pc EXCEPT ![p] = "done"]
    /\ loc' = [loc EXCEPT ![p].resp = Ok([status |-> TRUE])]
    /\ UNCHANGED <<users, world_records, nextId, clock, req, resp, wrSubmitted,
                   best, rd>>

\* lines 295-300
T_insert_one(p) ==
    /\ pc[p] = "insert_one"
    /\ tournament_scores' = InsertScore(tournament_scores, nextId,
                                        loc[p].payload.tournamentId.oid,
                                        loc[p].payload.userId.oid,
                                        loc[p].payload.username,
                                        loc[p].payload.score.v)
    /\ nextId' = nextId + 1
    /\ pc' = [pc EXCEPT ![p] = "find_overflow"]
    /\ UNCHANGED <<users, world_records, clock, req, resp, wrSubmitted, best,
                   loc, rd>>

\* lines 303-311: the overflow cursor is read into ids_to_delete
T_find_overflow(p) ==
    /\ pc[p] = "find_overflow"
    /\ \E overflow \in Overflow(FindScores(tournament_scores,
                                           loc[p].payload.tournamentId.oid), TopN) :
         LET ids_to_delete == {doc._id : doc \in overflow} IN
         IF ids_to_delete # {}
         THEN /\ pc' = [pc EXCEPT ![p] = "delete_many"]
              /\ loc' = [loc EXCEPT ![p].ids_to_delete = ids_to_delete]
         ELSE /\ pc' = [pc EXCEPT ![p] = "done"]
              /\ loc' = [loc EXCEPT ![p].resp = Ok([status |-> TRUE, qualified |-> TRUE])]
    /\ UNCHANGED <<users, world_records, tournament_scores, nextId, clock, req,
                   resp, wrSubmitted, best, rd>>

\* lines 312-314
T_delete_many(p) ==
    /\ pc[p] = "delete_many"
    /\ tournament_scores' = DeleteMany(tournament_scores, loc[p].ids_to_delete)
    /\ pc' = [pc EXCEPT ![p] = "done"]
    /\ loc' = [loc EXCEPT ![p].resp = Ok([status |-> TRUE, qualified |-> TRUE])]
    /\ UNCHANGED <<users, world_records, nextId, clock, req, resp, wrSubmitted,
                   best, rd>>

\* the answer is sent; the worker is free for the next request
T_return(p) ==
    /\ pc[p] = "done"
    /\ pc' = [pc EXCEPT ![p] = "idle"]
    /\ loc' = [loc EXCEPT ![p] = TLocals(None, None, {}, NoResp)]
    /\ UNCHANGED <<users, world_records, tournament_scores, nextId, clock, req,
                   resp, wrSubmitted, best, rd>>

\* lines 323-328
GTD_begin ==
    /\ rd = None
    /\ rd' = [i |-> 1, response |-> [current |-> None, last |-> None]]
    /\ UNCHANGED <<users, world_records, tournament_scores, nextId, clock, req,
                   resp, wrSubmitted, best, pc, loc>>

\* lines 330-358: one pass of the loop
GTD_iter ==
    /\ rd # None
    /\ rd.i <= Len(Tournaments)
    /\ \E q \in SortDesc(FindScores(tournament_scores, Tournaments[rd.i]._id)) :
         rd' = [i |-> rd.i + 1,
                response |-> Bucket(rd.response, Tournaments[rd.i],
                                    TournamentData(Tournaments[rd.i], Limit(q, TopN)))]
    /\ UNCHANGED <<users, world_records, tournament_scores, nextId, clock, req,
                   resp, wrSubmitted, best, pc, loc>>

\* lines 360-363
GTD_return ==
    /\ rd # None
    /\ rd.i > Len(Tournaments)
    /\ rd' = None
    /\ UNCHANGED <<users, world_records, tournament_scores, nextId, clock, req,
                   resp, wrSubmitted, best, pc, loc>>

\* The requests that interleave: every user submits every score to
\* tournament 1, user 1 also to tournament 2, and one request does not convert.
TConcPayloads ==
    [tournamentId : Hex({1}), userId : Hex(UserIds), username : {"a"},
     score : IntScores(0..MaxScore)]
    \cup [tournamentId : Hex({2}), userId : Hex({1}), username : {"a"},
          score : IntScores({0})]
    \cup [tournamentId : Hex({1}), userId : Hex({1}), username : {"a"},
          score : {[kind |-> "nan", v |-> 0]}]

InitTConc ==
    /\ InitCommon
    /\ InitBoard
    /\ pc = [p \in Procs |-> "idle"]
    /\ loc = [p \in Procs |-> TLocals(None, None, {}, NoResp)]

NextTConc ==
    \/ \E p \in Procs, payload \in TConcPayloads : T_find(p, payload)
    \/ \E p \in Procs : T_update_one(p)
    \/ \E p \in Procs : T_insert_one(p)
    \/ \E p \in Procs : T_find_overflow(p)
    \/ \E p \in Procs : T_delete_many(p)
    \/ \E p \in Procs : T_return(p)
    \/ GTD_begin
    \/ GTD_iter
    \/ GTD_return

SpecTConc == InitTConc /\ [][NextTConc]_vars

----------------------------------------------------------------------------
(* Properties of the interleaved tournament requests *)

\* C3: a tournament never holds two documents of one userId.
C3_OneDocPerUser ==
    \A d, e \in tournament_scores :
        (d.tournamentId = e.tournamentId /\ d.userId = e.userId) => d = e

\* the requests that have inserted and not finished trimming
Trimming(t) ==
    {p \in Procs : /\ pc[p] \in {"find_overflow", "delete_many"}
                   /\ loc[p].payload.tournamentId.oid = t}

\* C4: a tournament holds more than 50 documents only while some request is
\* between its insert and the end of its trim; with no request under way
\* every tournament holds at most 50.
C4_OverflowOnlyWhileTrimming ==
    \A t \in TournamentIds :
        /\ Cardinality(FindScores(tournament_scores, t)) > TopN => Trimming(t) # {}
        /\ (\A p \in Procs : pc[p] \in {"idle", "done"})
             => Cardinality(FindScores(tournament_scores, t)) <= TopN

\* two interleaved admissions have each found the same tournament two over
\* and have both finished their delete_many: at most 50 documents remain
C4_Witness ==
    /\ \A p \in Procs :
         /\ pc[p] = "done"
         /\ Cardinality(loc[p].ids_to_delete) = 2
         /\ loc[p].payload.tournamentId.oid = 1
    /\ Cardinality(FindScores(tournament_scores, 1)) <= TopN
    /\ FillerDoc(1) \notin tournament_scores

\* the leaderboard a pass of the loop has just put in the response
JustBuilt(t) ==
    IF t.weekType = "current" THEN rd'.response.current.leaderboard
    ELSE rd'.response.last.leaderboard

\* rows lb are at most n, ranked 1..N in order, non-increasing in score, and
\* are the highest-scoring documents of S
GoodBoard(lb, S, n) ==
    /\ Len(lb) = Least(n, Cardinality(S))
    /\ \A i \in 1..Len(lb) : lb[i].rank = i
    /\ \A i \in 1..(Len(lb) - 1) : lb[i].score >= lb[i + 1].score
    /\ \A i \in 1..Len(lb) :
         \E d \in S : d.username = lb[i].username /\ d.score = lb[i].score
    /\ \A v \in {x.score : x \in S} :
         Cardinality({i \in 1..Len(lb) : lb[i].score > v}) = Least(Len(lb), Above(S, v))

\* C8: whatever the store holds, also more than 50 documents of a tournament
\* between an insert and its trim, each pass of get_tournament_data builds a
\* leaderboard of at most 50 rows, ranked 1..N consecutively, scores
\* non-increasing, that are the highest-scoring stored documents.
C8_ReadIsSortedTop50 ==
    [][ (rd # None /\ rd' # None /\ rd'.i = rd.i + 1)
        => GoodBoard(JustBuilt(Tournaments[rd.i]),
                     FindScores(tournament_scores, Tournaments[rd.i]._id), TopN) ]_vars

\* a leaderboard of 50 rows, both newly inserted documents among them, has
\* been read while the tournament held 52
C8_Witness ==
    /\ rd # None
    /\ rd.i = 2
    /\ Cardinality(FindScores(tournament_scores, 1)) = TopN + 2
    /\ LET lb == rd.response.current.leaderboard
       IN  /\ Len(lb) = TopN
           /\ Cardinality({i \in 1..Len(lb) : lb[i].username = "a"}) = 2

\* The reads the handler makes of its sorted list agree with every sorted
\* order of the documents found.
SortedReadsAgree ==
    \A t \in TournamentIds :
        LET S == FindScores(tournament_scores, t)
            sorted == SortDesc(S)
        IN  /\ \A q \in sorted :
                 /\ Len(q) = Cardinality(S)
                 /\ S # {} => q[Len(q)].score = LastScore(S)
                 /\ \A i \in 1..(Len(q) - 1) : q[i].score >= q[i + 1].score
            /\ {{Skip(q, TopN)[i] : i \in 1..Len(Skip(q, TopN))} : q \in sorted}
                 = Overflow(S, TopN)
            /\ \A u \in UserIds :
                 Existing(S, u) =
                   {IF \E i \in 1..Len(q) : q[i].userId = u
                    THEN q[Min({i \in 1..Len(q) : q[i].userId = u})]
                    ELSE None : q \in sorted}

====
